---- MODULE Spec2Model ----
(***************************************************************************)
(* Trivia game page (src/script.js).  The script registers TWO            *)
(* DOMContentLoaded callbacks (lines 6 and 656).  Both run on every page   *)
(* load, in registration order, and each attaches its own listeners to    *)
(* the same form, buttons and inputs, so every DOM event is delivered to  *)
(* the listener of the first callback and then to the listener of the     *)
(* second one.  Definitions of the second callback carry the suffix 2.    *)
(***************************************************************************)
EXTENDS Integers, Sequences, FiniteSets, TLC

VARIABLES
    ls,        \* localStorage: the values under scores, scoreSort, triviaCurrentUser
    cookie,    \* the triviaUsername cookie
    dom,       \* the document: form fields, buttons, question blocks, score table
    fetches,   \* question requests in flight
    attached,  \* which DOMContentLoaded callback has attached its listeners
    now,       \* the last value Date.now() returned
    probe      \* bookkeeping of the storage and scoreboard checks (ViewSpec)

vars == <<ls, cookie, dom, fetches, attached, now, probe>>

(***************************** bounds **************************************)
\* number of question blocks a response can carry (the API is asked for 10)
MaxQuestions == 1
\* largest value of the millisecond clock
MaxTime == 0
\* largest number of question requests in flight
MaxFetches == 3
\* largest number of records in the stored list
MaxScores == 2

(***************************** values **************************************)
\* what the user can have typed in the name field
RawNames == {" ", " al b "}

\* String.prototype.trim
trim(v) == IF v = " al b " THEN "al b" ELSE IF v = " " THEN "" ELSE v

\* encodeURIComponent / decodeURIComponent on the names that occur
encodeURIComponent(v) == IF v = "al b" THEN "al%20b" ELSE v
decodeURIComponent(v) == IF v = "al%20b" THEN "al b" ELSE v

SortOptions == {"newest", "oldest", "highest", "lowest"}

\* localStorage.getItem returns null for a missing key
Absent == [kind |-> "absent"]
\* a stored plain string (sort preference, user name, cookie value)
Str(v) == [kind |-> "str", v |-> v]
\* a stored string that JSON.parse rejects
Garbage == [kind |-> "garbage"]
\* a stored string that is valid JSON
JsonText(v) == [kind |-> "json", v |-> v]

\* parsed JSON values that are not arrays
JNull == [j |-> "null"]
JNumber == [j |-> "number"]
JObject == [j |-> "object"]
\* a parsed array, or an array built in memory
JArray(items) == [j |-> "array", items |-> items]

\* a score record; records written by older versions of the page lack ts
Rec(n, c, t, ts) == [name |-> n, correct |-> c, total |-> t, ts |-> ts]
RecNoTs(n, c, t) == [name |-> n, correct |-> c, total |-> t]
HasTs(r) == "ts" \in DOMAIN r

(***************************** JSON ****************************************)
\* JSON.stringify of one record: its own keys in insertion order
\* a serialisation that writes only name, correct and total
StringifyRecordNoTs(r) ==
    <<<<"name", r.name>>, <<"correct", r.correct>>, <<"total", r.total>>>>

\* JSON.stringify of one record: its own keys in insertion order
StringifyRecord(r) ==
    <<<<"name", r.name>>, <<"correct", r.correct>>, <<"total", r.total>>>>
    \o (IF HasTs(r) THEN <<<<"ts", r.ts>>>> ELSE <<>>)

\* JSON.parse of one object literal
ParseRecord(p) ==
    [k \in {p[i][1] : i \in 1..Len(p)} |->
        p[CHOOSE i \in 1..Len(p) : p[i][1] = k][2]]

\* JSON.stringify of an array of records
Stringify(arr) ==
    JsonText([j |-> "array",
              items |-> [i \in 1..Len(arr) |-> StringifyRecord(arr[i])]])

\* JSON.parse of a stored JSON text: an array of records, or a non-array value
Parse(v) ==
    IF v.j = "array"
    THEN JArray([i \in 1..Len(v.items) |-> ParseRecord(v.items[i])])
    ELSE v

(***************************** storage helpers *****************************)
\* src/script.js:394 and :905 (both callbacks define the same function)
getScoresFromStorage(s) ==
    LET raw == s.ls.scores IN
    IF raw.kind = "absent" THEN JArray(<<>>)
    ELSE IF raw.kind = "garbage" THEN JArray(<<>>)
    ELSE Parse(raw.v)

\* src/script.js:410 and :925
setScoresInStorage(s, scoresArray) ==
    [s EXCEPT !.ls.scores = Stringify(scoresArray)]

\* a save that stores the list it read without the new record
pushAndStoreNoPush(s, scores, record) ==
    setScoresInStorage(s, scores.items)

\* src/script.js:424-426 and :939-941: scores.push(record), then
\* setScoresInStorage(scores), on the array read before
pushAndStore(s, scores, record) ==
    setScoresInStorage(s, Append(scores.items, record))

\* src/script.js:418 and :933; push on a value that is not an array throws
saveScoreToStorage(s, name, correct, total, ts) ==
    LET scores == getScoresFromStorage(s) IN
    IF scores.j # "array" THEN [s EXCEPT !.exc = TRUE]
    ELSE pushAndStore(s, scores, Rec(name, correct, total, ts))

\* src/script.js:378
getSortPreference(s) ==
    IF s.ls.sort = Absent THEN "newest" ELSE s.ls.sort.v

(***************************** ordering ************************************)
\* (r.ts || 0)
Ts(r) == IF HasTs(r) THEN r.ts ELSE 0

\* r.total ? r.correct / r.total : 0, kept as a fraction
RatioNum(r) == IF r.total = 0 THEN 0 ELSE r.correct
RatioDen(r) == IF r.total = 0 THEN 1 ELSE r.total
RatioLess(a, b) == RatioNum(a) * RatioDen(b) < RatioNum(b) * RatioDen(a)
RatioEq(a, b) == RatioNum(a) * RatioDen(b) = RatioNum(b) * RatioDen(a)

\* Math.round((r.total ? r.correct / r.total : 0) * 100)
Percent(r) == (200 * RatioNum(r) + RatioDen(r)) \div (2 * RatioDen(r))

\* the comparators of displayScores, by sort preference
cmpNewest(a, b) == Ts(b) - Ts(a)
cmpOldest(a, b) == Ts(a) - Ts(b)
\* a "highest" comparator that breaks ties by oldest first
cmpHighestTieOldest(a, b) ==
    IF ~RatioEq(a, b) THEN (IF RatioLess(b, a) THEN -1 ELSE 1)
    ELSE Ts(a) - Ts(b)

cmpHighest(a, b) ==
    IF ~RatioEq(a, b) THEN (IF RatioLess(b, a) THEN -1 ELSE 1)
    ELSE Ts(b) - Ts(a)
\* a "lowest" comparator that breaks ties by newest first
cmpLowestTieNewest(a, b) ==
    IF ~RatioEq(a, b) THEN (IF RatioLess(a, b) THEN -1 ELSE 1)
    ELSE Ts(b) - Ts(a)

cmpLowest(a, b) ==
    IF ~RatioEq(a, b) THEN (IF RatioLess(a, b) THEN -1 ELSE 1)
    ELSE Ts(a) - Ts(b)

compare(pref, a, b) ==
    CASE pref = "newest" -> cmpNewest(a, b)
      [] pref = "oldest" -> cmpOldest(a, b)
      [] pref = "highest" -> cmpHighest(a, b)
      [] pref = "lowest" -> cmpLowest(a, b)
      [] OTHER -> 0

\* Array.prototype.sort is stable: x goes in front of the first element it
\* compares below, and behind everything else
RECURSIVE InsertSorted(_, _, _)
InsertSorted(pref, x, sorted) ==
    IF sorted = <<>> THEN <<x>>
    ELSE IF compare(pref, x, Head(sorted)) < 0 THEN <<x>> \o sorted
    ELSE <<Head(sorted)>> \o InsertSorted(pref, x, Tail(sorted))

RECURSIVE sort(_, _)
sort(pref, arr) ==
    IF arr = <<>> THEN <<>>
    ELSE InsertSorted(pref, arr[Len(arr)], sort(pref, SubSeq(arr, 1, Len(arr) - 1)))

(***************************** scoreboard **********************************)
\* one <tr> of the score table: name, "correct/total", date ("-" without ts)
Row(r, top) ==
    [name |-> r.name, correct |-> r.correct, total |-> r.total,
     date |-> IF HasTs(r) THEN <<r.ts>> ELSE <<>>, top |-> top]

\* the "No scores yet." row
EmptyRow == [empty |-> TRUE]

\* a top percentage taken from the first row only
reduceBestHeadOnly(best, arr) ==
    IF arr = <<>> THEN best ELSE Percent(Head(arr))

\* scores.reduce(...) of src/script.js:496: the largest percentage, from 0
RECURSIVE reduceBest(_, _)
reduceBest(best, arr) ==
    IF arr = <<>> THEN best
    ELSE reduceBest(IF Percent(Head(arr)) > best THEN Percent(Head(arr)) ELSE best,
                    Tail(arr))

\* a row loop that stops one record early
RowsOfSkipLast(arr, topPercent) ==
    [i \in 1..(Len(arr) - 1) |-> Row(arr[i], Percent(arr[i]) = topPercent)]

\* the forEach of src/script.js:506 and :985, one row per record
RowsOf(arr, topPercent) ==
    [i \in 1..Len(arr) |-> Row(arr[i], Percent(arr[i]) = topPercent)]

CountTop(arr, topPercent) ==
    Cardinality({i \in 1..Len(arr) : Percent(arr[i]) = topPercent})

\* a displayScores that writes the sorted array back to storage
displayScoresInPlace(s) ==
    LET scores == getScoresFromStorage(s)
        pref == getSortPreference(s)
        sorted == IF pref \in SortOptions THEN sort(pref, scores.items)
                  ELSE scores.items
    IN IF scores.j # "array" \/ Len(scores.items) = 0
       THEN [s EXCEPT !.dom.tbody = <<>>]
       ELSE [setScoresInStorage(s, sorted) EXCEPT
                !.dom.tbody = RowsOf(sorted, reduceBest(0, sorted))]

\* src/script.js:430-537, displayScores of the first callback
displayScores(s) ==
    LET scores == getScoresFromStorage(s)
        pref == getSortPreference(s)
        cleared == [s EXCEPT !.dom.tbody = <<>>]
    IN
    IF scores.j = "null" THEN [cleared EXCEPT !.exc = TRUE]
    ELSE IF scores.j # "array"
    THEN [cleared EXCEPT !.dom.clearDisabled = FALSE, !.exc = TRUE]
    ELSE IF Len(scores.items) = 0
    THEN [cleared EXCEPT !.dom.tbody = <<EmptyRow>>,
                         !.dom.clearDisabled = TRUE,
                         !.dom.topText = <<>>,
                         !.dom.topHidden = TRUE]
    ELSE
    LET sorted == IF pref \in SortOptions THEN sort(pref, scores.items)
                  ELSE scores.items
        topPercent == reduceBest(0, sorted)
    IN [cleared EXCEPT !.dom.clearDisabled = FALSE,
                       !.dom.tbody = RowsOf(sorted, topPercent),
                       !.dom.topText = <<topPercent, CountTop(sorted, topPercent)>>,
                       !.dom.topHidden = FALSE]

\* src/script.js:945-1028, displayScores of the second callback: always
\* ordered by highest ratio, no placeholder row, Clear button untouched
displayScores2(s) ==
    LET scores == getScoresFromStorage(s)
        cleared == [s EXCEPT !.dom.tbody = <<>>]
    IN
    IF scores.j # "array" THEN [cleared EXCEPT !.exc = TRUE]
    ELSE
    LET sorted == sort("highest", scores.items) IN
    IF Len(sorted) = 0
    THEN [cleared EXCEPT !.dom.topText = <<>>, !.dom.topHidden = TRUE]
    ELSE
    LET topPercent == Percent(sorted[1]) IN
    [cleared EXCEPT !.dom.tbody = RowsOf(sorted, topPercent),
                    !.dom.topText = <<topPercent, CountTop(sorted, topPercent)>>,
                    !.dom.topHidden = FALSE]

(***************************** questions ***********************************)
\* a rendered question block: which radio is checked, and the "invalid" class
Block(sel, invalid) == [sel |-> sel, invalid |-> invalid]

\* what a question request can settle with
Outcomes ==
    {[kind |-> "results", n |-> n] : n \in 0..MaxQuestions}
    \cup {[kind |-> "noresults"], [kind |-> "reject"], [kind |-> "badjson"]}

\* src/script.js:144 and :725
showLoading(s, isLoading) ==
    [s EXCEPT !.dom.loaderHidden = ~isLoading,
              !.dom.questionsHidden = isLoading]

\* src/script.js:114 and :695: show the loader and start a request.  The
\* pending requests are counted: "fresh" ones were started since the last
\* New Player click, "stale" ones before it
fetchQuestions(s) ==
    [showLoading(s, TRUE) EXCEPT !.fetches.fresh = @ + 1]

\* src/script.js:168 and :749: the container is emptied first, then
\* questions.forEach runs (and throws when data.results is undefined)
displayQuestions(s, o) ==
    IF o.kind = "results"
    THEN [s EXCEPT !.dom.blocks = [i \in 1..o.n |-> Block("none", FALSE)]]
    ELSE [s EXCEPT !.dom.blocks = <<>>, !.exc = TRUE]

\* a promise chain without its catch handler
fetchSettledNoCatch(s, o) ==
    IF o.kind \in {"reject", "badjson"} THEN s
    ELSE IF o.kind = "noresults" THEN [displayQuestions(s, o) EXCEPT !.exc = FALSE]
    ELSE showLoading(displayQuestions(s, o), FALSE)

\* a catch handler that asks for the questions again
fetchSettledRetrying(s, o) ==
    IF o.kind \in {"reject", "badjson"} THEN fetchQuestions(s)
    ELSE showLoading([displayQuestions(s, o) EXCEPT !.exc = FALSE], FALSE)

\* the .then/.catch chain of fetchQuestions, for outcome o
fetchSettled(s, o) ==
    IF o.kind \in {"reject", "badjson"} THEN showLoading(s, FALSE)
    ELSE showLoading([displayQuestions(s, o) EXCEPT !.exc = FALSE], FALSE)

(***************************** identity ************************************)
\* src/script.js:617, setCookie(USERNAME_COOKIE, value, 30)
setCookie(s, value) == [s EXCEPT !.cookie = Str(encodeURIComponent(value))]

\* src/script.js:627, getCookie(USERNAME_COOKIE): "" when there is none
getCookie(s) == IF s.cookie = Absent THEN "" ELSE decodeURIComponent(s.cookie.v)

\* src/script.js:644, eraseCookie(USERNAME_COOKIE)
eraseCookie(s) == [s EXCEPT !.cookie = Absent]

\* src/script.js:540
checkUsername(s) ==
    IF s.ls.user # Absent /\ s.ls.user.v # ""
    THEN [s EXCEPT !.dom.username = s.ls.user.v,
                   !.dom.remember = TRUE,
                   !.dom.forgetHidden = FALSE]
    ELSE [s EXCEPT !.dom.remember = FALSE, !.dom.forgetHidden = TRUE]

\* src/script.js:559
checkUserSession(s) ==
    IF getCookie(s) # ""
    THEN [s EXCEPT !.dom.username = getCookie(s),
                   !.dom.remember = TRUE,
                   !.dom.forgetHidden = FALSE]
    ELSE s

\* src/script.js:386; a <select> given a value it has no option for shows none
applySavedSortPreference(s) ==
    LET pref == getSortPreference(s) IN
    [s EXCEPT !.dom.sortSelect = IF pref \in SortOptions THEN pref ELSE ""]

\* src/script.js:1031
checkUsername2(s) ==
    IF s.ls.user # Absent /\ s.ls.user.v # ""
    THEN [s EXCEPT !.dom.username = s.ls.user.v]
    ELSE s

\* src/script.js:43-62, "input" listener of the first callback
usernameInput(s) ==
    LET value == trim(s.dom.username) IN
    IF s.dom.remember /\ value # ""
    THEN setCookie([s EXCEPT !.ls.user = Str(value), !.dom.forgetHidden = FALSE],
                   value)
    ELSE eraseCookie([s EXCEPT !.ls.user = Absent, !.dom.forgetHidden = TRUE])

\* src/script.js:678-689, "input" listener of the second callback
usernameInput2(s) ==
    LET value == trim(s.dom.username) IN
    IF value # "" THEN [s EXCEPT !.ls.user = Str(value)]
    ELSE [s EXCEPT !.ls.user = Absent]

\* src/script.js:65-84, "change" listener of the remember-me checkbox
rememberCheckbox(s) ==
    LET value == trim(s.dom.username) IN
    IF s.dom.remember /\ value # ""
    THEN setCookie([s EXCEPT !.ls.user = Str(value), !.dom.forgetHidden = FALSE],
                   value)
    ELSE eraseCookie([s EXCEPT !.ls.user = Absent, !.dom.forgetHidden = TRUE])

\* a Forget me listener that empties localStorage instead of removing one key
forgetButtonClearsAll(s) ==
    [eraseCookie(s) EXCEPT !.ls = [scores |-> Absent, sort |-> Absent, user |-> Absent],
                           !.dom.username = "",
                           !.dom.remember = FALSE,
                           !.dom.forgetHidden = TRUE,
                           !.focus = "username"]

\* src/script.js:87-100, "click" listener of the Forget me button
forgetButton(s) ==
    [eraseCookie(s) EXCEPT !.ls.user = Absent,
                           !.dom.username = "",
                           !.dom.remember = FALSE,
                           !.dom.forgetHidden = TRUE,
                           !.focus = "username"]

\* src/script.js:103-108, "change" listener of the sort select
sortSelect(s) ==
    displayScores([s EXCEPT !.ls.sort = Str(s.dom.sortSelect)])

(***************************** submit **************************************)
\* a scan that also counts a form without questions as unanswered
UnansweredOrEmpty(blocks) ==
    IF Len(blocks) = 0 THEN {0}
    ELSE {i \in 1..Len(blocks) : blocks[i].sel = "none"}

\* the blocks without a checked radio
Unanswered(blocks) == {i \in 1..Len(blocks) : blocks[i].sel = "none"}
CorrectSelections(blocks) ==
    Cardinality({i \in 1..Len(blocks) : blocks[i].sel = "right"})
\* the last unanswered block instead of the first
LastOf(S) == CHOOSE x \in S : \A y \in S : x >= y

\* if (!firstUnanswered) firstUnanswered = blockEl: the first one found
Min(S) == CHOOSE x \in S : \A y \in S : x <= y

\* src/script.js:234-375, submit listener of the first callback; nowTs is
\* Date.now() of line 319, ts the Date.now() of saveScoreToStorage
handleFormSubmit(s, nowTs, ts) ==
    LET blocks == s.dom.blocks
        flagged == [s EXCEPT !.dom.blocks =
                      [i \in 1..Len(blocks) |->
                          [blocks[i] EXCEPT !.invalid = (blocks[i].sel = "none")]]]
        trimmed == trim(s.dom.username)
        totalQuestions == Len(blocks)
        correctSelections == CorrectSelections(blocks)
    IN
    IF Unanswered(blocks) # {}
    THEN [flagged EXCEPT !.focus = "block",
                         !.focusIndex = Min(Unanswered(blocks)),
                         !.alerts = Append(@, "answer")]
    ELSE IF trimmed = ""
    THEN [flagged EXCEPT !.focus = "username", !.alerts = Append(@, "name")]
    ELSE
    LET shown == [flagged EXCEPT
                     !.dom.summaryHidden = FALSE,
                     !.dom.tbody = Append(@,
                         Row(Rec(trimmed, correctSelections, totalQuestions, nowTs),
                             FALSE))]
        saved == saveScoreToStorage(shown, trimmed, correctSelections,
                                    totalQuestions, ts)
    IN
    IF saved.exc THEN saved
    ELSE
    LET ident == IF saved.dom.remember
                 THEN setCookie([saved EXCEPT !.ls.user = Str(trimmed),
                                              !.dom.forgetHidden = FALSE],
                                trimmed)
                 ELSE eraseCookie([saved EXCEPT !.ls.user = Absent,
                                                !.dom.forgetHidden = TRUE])
        painted == displayScores(ident)
    IN
    IF painted.exc THEN painted
    ELSE [checkUserSession(painted) EXCEPT !.dom.newPlayerHidden = FALSE,
                                           !.dom.submitDisabled = TRUE]

\* the second submit listener without its unanswered-question check
handleFormSubmit2Unchecked(s, nowTs) ==
    LET blocks == s.dom.blocks
        rawName == trim(s.dom.username)
        playerName == IF rawName # "" THEN rawName ELSE "Anonymous"
        saved == saveScoreToStorage(s, playerName, CorrectSelections(blocks),
                                    Len(blocks), nowTs)
    IN [displayScores2(saved) EXCEPT !.dom.newPlayerHidden = FALSE,
                                     !.dom.submitDisabled = TRUE]

\* src/script.js:815-902, submit listener of the second callback
handleFormSubmit2(s, nowTs) ==
    LET blocks == s.dom.blocks
        totalQuestions == Len(blocks)
        score == CorrectSelections(blocks)
        unanswered == Cardinality(Unanswered(blocks))
        rawName == trim(s.dom.username)
        playerName == IF rawName # "" THEN rawName ELSE "Anonymous"
    IN
    IF unanswered > 0 THEN [s EXCEPT !.alerts = Append(@, "answer")]
    ELSE
    LET named == IF rawName # "" THEN [s EXCEPT !.ls.user = Str(rawName)] ELSE s
        shown == [named EXCEPT !.dom.tbody = Append(@,
                     Row(Rec(playerName, score, totalQuestions, nowTs), FALSE))]
        saved == saveScoreToStorage(shown, playerName, score, totalQuestions, nowTs)
    IN
    IF saved.exc THEN saved
    ELSE
    LET painted == displayScores2(saved) IN
    IF painted.exc THEN painted
    ELSE [painted EXCEPT !.dom.bannerShown = TRUE,
                         !.dom.newPlayerHidden = FALSE,
                         !.dom.submitDisabled = TRUE]

(***************************** buttons *************************************)
\* a New Player listener that aborts the requests of the round before
newPlayerAborting(s) ==
    LET reset == [eraseCookie(s) EXCEPT !.dom.username = "",
                                        !.ls.user = Absent,
                                        !.dom.remember = FALSE,
                                        !.dom.forgetHidden = TRUE,
                                        !.dom.submitDisabled = FALSE,
                                        !.dom.newPlayerHidden = TRUE,
                                        !.dom.blocks = <<>>,
                                        !.dom.summaryHidden = TRUE,
                                        !.fetches.stale = 0]
    IN [fetchQuestions(showLoading(reset, TRUE)) EXCEPT !.focus = "username"]

\* src/script.js:574-601, New Player listener of the first callback
newPlayer(s) ==
    LET reset == [eraseCookie(s) EXCEPT !.dom.username = "",
                                        !.ls.user = Absent,
                                        !.dom.remember = FALSE,
                                        !.dom.forgetHidden = TRUE,
                                        !.dom.submitDisabled = FALSE,
                                        !.dom.newPlayerHidden = TRUE,
                                        !.dom.blocks = <<>>,
                                        !.dom.summaryHidden = TRUE]
    IN [fetchQuestions(showLoading(reset, TRUE)) EXCEPT !.focus = "username"]

\* src/script.js:1093-1116, New Player listener of the second callback
newPlayer2(s) ==
    LET reset == [s EXCEPT !.ls.user = Absent,
                           !.dom.username = "",
                           !.dom.submitDisabled = FALSE,
                           !.dom.newPlayerHidden = TRUE,
                           !.dom.blocks = <<>>,
                           !.dom.bannerShown = FALSE]
    IN [fetchQuestions(showLoading(reset, TRUE)) EXCEPT !.focus = "username"]

\* a Clear Scores listener that does not look at the dialog's answer
clearScoresUnconfirmed(s, ok) ==
    displayScores([s EXCEPT !.ls.scores = Absent])

\* src/script.js:604-614; ok is the answer to window.confirm
clearScores(s, ok) ==
    IF ok THEN displayScores([s EXCEPT !.ls.scores = Absent]) ELSE s

\* src/script.js:1042-1052
clearScores2(s, ok) ==
    IF ok THEN displayScores2([s EXCEPT !.ls.scores = Absent]) ELSE s

(***************************** page load ***********************************)
\* the document as the HTML delivers it, before any script has run
HtmlDom ==
    [username |-> "", remember |-> FALSE, forgetHidden |-> TRUE,
     sortSelect |-> "newest", submitDisabled |-> FALSE,
     newPlayerHidden |-> TRUE, summaryHidden |-> TRUE, bannerShown |-> FALSE,
     loaderHidden |-> TRUE, questionsHidden |-> FALSE, blocks |-> <<>>,
     tbody |-> <<>>, clearDisabled |-> FALSE, topText |-> <<>>,
     topHidden |-> TRUE]

NoFetches == [stale |-> 0, fresh |-> 0]

NoProbe == [x |-> <<>>, got |-> <<>>, again |-> Absent, painted |-> "none"]

Fresh(lsv, ck) ==
    [ls |-> lsv, cookie |-> ck, dom |-> HtmlDom, fetches |-> NoFetches,
     exc |-> FALSE, focus |-> "none", focusIndex |-> 0, alerts |-> <<>>]

Handled(s) == [s EXCEPT !.exc = FALSE]

\* src/script.js:32-40, the first DOMContentLoaded callback up to the point
\* where it starts attaching listeners; exc = it threw before attaching
init(s) ==
    displayScores(
        fetchQuestions(
            applySavedSortPreference(checkUserSession(checkUsername(s)))))

\* src/script.js:671-675, the second DOMContentLoaded callback likewise
init2(s) == displayScores2(fetchQuestions(checkUsername2(s)))

\* both callbacks, in registration order
load(s) == Handled(init2(Handled(init(s))))

\* which callbacks got as far as attaching their listeners
Attached(s) ==
    [c \in {1, 2} |->
        IF c = 1 THEN ~init(s).exc ELSE ~init2(Handled(init(s))).exc]

(***************************** state machine *******************************)
\* the page as a handler finds it; exc (an exception left the handler) and
\* focus (the element a handler moved the focus to) last for one event
Cur == [ls |-> ls, cookie |-> cookie, dom |-> dom, fetches |-> fetches,
        exc |-> FALSE, focus |-> "none", focusIndex |-> 0, alerts |-> <<>>]

Commit(s) ==
    \E v \in {s} :
        /\ ls' = v.ls
        /\ cookie' = v.cookie
        /\ dom' = v.dom
        /\ fetches' = v.fetches

\* deliver an event to the listener of the first callback, then the second
On1(s, after) == IF attached[1] THEN Handled(after) ELSE s
On2(s, after) == IF attached[2] THEN Handled(after) ELSE s

\* values the scores key can hold when the page is opened
InitScores ==
    {Absent, Garbage, JsonText(JNull), JsonText(JNumber), JsonText(JObject),
     Stringify(<<>>),
     Stringify(<<RecNoTs("old", 1, 2)>>)}

InitSorts == {Absent, Str("bogus"), Str("highest")}

\* the sort modes the user picks on the page
PageSorts == {"highest", "oldest"}

InitIdentities == {<<Absent, Absent>>, <<Str("al b"), Str("al%20b")>>}

Init ==
    \E sc \in InitScores, so \in InitSorts, id \in InitIdentities :
        LET s0 == Fresh([scores |-> sc, sort |-> so, user |-> id[1]], id[2]) IN
        /\ ls = load(s0).ls
        /\ cookie = load(s0).cookie
        /\ dom = load(s0).dom
        /\ fetches = load(s0).fetches
        /\ attached = Attached(s0)
        /\ now = 0
        /\ probe = NoProbe

\* the user reloads the page: requests of the old document are dropped
PageLoad ==
    LET s0 == Fresh(ls, cookie) IN
    /\ Commit(load(s0))
    /\ attached' = Attached(s0)
    /\ UNCHANGED <<now, probe>>

\* the user edits the name field
TypeName ==
    \E v \in RawNames :
        /\ v # dom.username
        /\ \E s0 \in {[Cur EXCEPT !.dom.username = v]} :
           \E s1 \in {On1(s0, usernameInput(s0))} :
              Commit(On2(s1, usernameInput2(s1)))
        /\ UNCHANGED <<attached, now, probe>>

\* the user ticks or unticks "remember me"
ToggleRemember ==
    /\ LET s0 == [Cur EXCEPT !.dom.remember = ~dom.remember]
       IN Commit(On1(s0, rememberCheckbox(s0)))
    /\ UNCHANGED <<attached, now, probe>>

\* the user clicks "Forget me"
ClickForget ==
    /\ ~dom.forgetHidden
    /\ attached[1]
    /\ Commit(On1(Cur, forgetButton(Cur)))
    /\ UNCHANGED <<attached, now, probe>>

\* the user picks another sort order
ChangeSort ==
    \E m \in PageSorts :
        /\ m # dom.sortSelect
        /\ LET s0 == [Cur EXCEPT !.dom.sortSelect = m]
           IN Commit(On1(s0, sortSelect(s0)))
        /\ UNCHANGED <<attached, now, probe>>

\* the user checks a radio button of a visible question
SelectAnswer ==
    \E i \in 1..Len(dom.blocks), sel \in {"right", "wrong"} :
        /\ ~dom.questionsHidden
        /\ dom.blocks[i].sel # sel
        /\ dom' = [dom EXCEPT !.blocks[i].sel = sel]
        /\ UNCHANGED <<ls, cookie, fetches, attached, now, probe>>

\* the stored list as the page reads it (no records when it is not an array)
StoredList(s) ==
    IF getScoresFromStorage(s).j = "array" THEN getScoresFromStorage(s).items
    ELSE <<>>

\* the user submits the form; the clock may advance between the Date.now()
\* calls of the two listeners
Submit ==
    /\ ~dom.submitDisabled
    /\ attached[1] \/ attached[2]
    /\ \E t1 \in now..MaxTime :
       \E t2 \in t1..MaxTime :
       \E t3 \in t2..MaxTime :
       \E s1 \in {On1(Cur, handleFormSubmit(Cur, t1, t2))} :
       \E s2 \in {On2(s1, handleFormSubmit2(s1, t3))} :
          /\ Len(StoredList(s2)) <= MaxScores
          /\ Commit(s2)
          /\ now' = t3
    /\ UNCHANGED <<attached, probe>>

\* the user clicks "New Player"
ClickNewPlayer ==
    /\ ~dom.newPlayerHidden
    /\ attached[1] \/ attached[2]
    /\ fetches.stale + fetches.fresh + 2 <= MaxFetches
    /\ \E s0 \in {[Cur EXCEPT !.fetches =
                        [stale |-> fetches.stale + fetches.fresh, fresh |-> 0]]} :
       \E s1 \in {On1(s0, newPlayer(s0))} :
          Commit(On2(s1, newPlayer2(s1)))
    /\ UNCHANGED <<attached, now, probe>>

\* the user clicks "Clear Scores" and answers the confirm dialog of each
\* listener with ok1 and ok2
ClickClearWith(ok1, ok2) ==
    /\ ~dom.clearDisabled
    /\ attached[1] \/ attached[2]
    /\ \E s1 \in {On1(Cur, clearScores(Cur, ok1))} :
          Commit(On2(s1, clearScores2(s1, ok2)))
    /\ UNCHANGED <<attached, now, probe>>

ClickClear == \E ok1 \in BOOLEAN, ok2 \in BOOLEAN : ClickClearWith(ok1, ok2)

\* a question request settles
Response(age, o) ==
    /\ fetches[age] > 0
    /\ LET s0 == [Cur EXCEPT !.fetches[age] = @ - 1]
       IN Commit(Handled(fetchSettled(s0, o)))
    /\ UNCHANGED <<attached, now>>

FetchSettle ==
    \E age \in {"stale", "fresh"}, o \in Outcomes :
        Response(age, o) /\ UNCHANGED probe

Next ==
    \/ PageLoad
    \/ TypeName
    \/ ToggleRemember
    \/ ClickForget
    \/ ChangeSort
    \/ SelectAnswer
    \/ Submit
    \/ ClickNewPlayer
    \/ ClickClear
    \/ FetchSettle

Spec == Init /\ [][Next]_vars

(***************************** claims on the page **************************)
\* the stored list of the current state
StoredNow == StoredList(Cur)

IsPrefix(a, b) == Len(a) <= Len(b) /\ SubSeq(b, 1, Len(a)) = a

\* every rendered question is answered and the name is not blank
AllAnswered == Unanswered(dom.blocks) = {}
NameGiven == trim(dom.username) # ""

\* C1: a submit with at least one unanswered question leaves the value stored
\* under the scores key exactly as it was, whatever the list, the name and
\* the remember-me setting
C1_UnansweredSubmitAppendsNothing ==
    [][(Submit /\ ~AllAnswered) => ls'.scores = ls.scores]_vars

\* a block carries the "invalid" class (only a blocked submit sets it) next
\* to a non-empty stored list
C1_Witness ==
    /\ \E i \in 1..Len(dom.blocks) : dom.blocks[i].invalid
    /\ Len(StoredNow) > 0

\* C2: an accepted submission (all answered, name given) appends exactly one
\* record {name, correct, total, timestamp} at the end of the stored list
C2_OneRecordPerAcceptedSubmit ==
    [][(Submit /\ AllAnswered /\ NameGiven) =>
          /\ Len(StoredNow') = Len(StoredNow) + 1
          /\ IsPrefix(StoredNow, StoredNow')
          /\ LET r == StoredNow'[Len(StoredNow')] IN
                /\ r.name = trim(dom.username)
                /\ r.correct = CorrectSelections(dom.blocks)
                /\ r.total = Len(dom.blocks)
                /\ HasTs(r)]_vars

\* C3: a submission with every question answered and a blank name appends no
\* record, leaves the submit button enabled and the New Player button hidden
C3_BlankNameNotScored ==
    [][(Submit /\ AllAnswered /\ ~NameGiven) =>
          /\ ls'.scores = ls.scores
          /\ ~dom'.submitDisabled
          /\ dom'.newPlayerHidden]_vars

\* the score table shows no record and the top-score box is hidden
EmptyBoard ==
    /\ \A i \in 1..Len(dom.tbody) : dom.tbody[i] = EmptyRow
    /\ dom.topHidden

\* C4: with a non-JSON string under the scores key getScoresFromStorage
\* returns the empty list without raising and the scoreboard is empty, and the
\* next accepted submission replaces the value by a list of exactly the new
\* record
C4_CorruptValueSelfHeals ==
    [][/\ ls.scores = Garbage =>
             /\ getScoresFromStorage(Cur) = JArray(<<>>)
             /\ EmptyBoard
       /\ (Submit /\ AllAnswered /\ NameGiven /\ ls.scores = Garbage) =>
             /\ ls'.scores.kind = "json"
             /\ Len(StoredNow') = 1
             /\ StoredNow'[1].name = trim(dom.username)]_vars

\* C5: whatever the scores key holds, page initialisation, displayScores and
\* saveScoreToStorage complete without raising and both callbacks have
\* attached their listeners
C5_AnyStoredValueIsTolerated ==
    /\ attached[1] /\ attached[2]
    /\ ~displayScores(Cur).exc
    /\ ~displayScores2(Cur).exc
    /\ ~saveScoreToStorage(Cur, "al b", 0, 0, now).exc

\* C7: a step either keeps every stored record, with its fields and in its
\* place, or is a Clear Scores click that the user confirmed
C7_RecordsStayUntilCleared ==
    [][\/ IsPrefix(StoredNow, StoredNow')
       \/ \E ok1 \in BOOLEAN, ok2 \in BOOLEAN :
             (ok1 \/ ok2) /\ ClickClearWith(ok1, ok2)]_vars

\* the record found at page load is still first after a later submission
\* was appended and New Player started the next round
C7_Witness ==
    /\ Len(StoredNow) >= 2
    /\ StoredNow[1] = RecNoTs("old", 1, 2)
    /\ dom.newPlayerHidden
    /\ fetches.fresh + fetches.stale > 0
    /\ dom.username = ""

\* C20: a Clear Scores click removes the scores key and leaves an empty
\* scoreboard when the user confirms, leaves the stored keys and the painted
\* rows alone when the user declines, and never touches the sort preference
\* or the remembered identity
C20_ClearOnlyOnConfirm ==
    [][\A ok1 \in BOOLEAN, ok2 \in BOOLEAN :
          ClickClearWith(ok1, ok2) =>
              /\ (ok1 \/ ok2) => (ls'.scores = Absent /\ EmptyBoard')
              /\ (~ok1 /\ ~ok2) => (ls' = ls /\ dom'.tbody = dom.tbody)
              /\ ls'.sort = ls.sort
              /\ ls'.user = ls.user
              /\ cookie' = cookie]_vars

\* a score was submitted on this page and the scores key is gone again,
\* with a sort preference and a remembered name still stored
C20_Witness ==
    /\ ls.scores = Absent
    /\ dom.submitDisabled
    /\ EmptyBoard
    /\ ls.sort # Absent
    /\ ls.user # Absent

\* C21: the localStorage key triviaCurrentUser and the cookie
\* triviaUsername are both absent, or both present with the same name
C21_IdentityMirrored ==
    \/ ls.user = Absent /\ cookie = Absent
    \/ ls.user # Absent /\ cookie # Absent /\ ls.user.v = getCookie(Cur)

\* C22: a name is stored, under the key or in the cookie, only while the
\* remember-me checkbox is checked
C22_RememberIsOptIn ==
    (ls.user # Absent \/ cookie # Absent) => dom.remember

\* the scoreboard of a page: record rows with their top flags (the
\* placeholder row of an empty board left aside) and the top summary
Board(d) ==
    [tbody |-> SelectSeq(d.tbody, LAMBDA r : "empty" \notin DOMAIN r),
     topText |-> d.topText, topHidden |-> d.topHidden]

\* the scoreboard that storage and the stored sort preference define
ViewOfStorage(s) == Board(displayScores(s).dom)

C26_NewPlayerResetsRound ==
    [][ClickNewPlayer =>
         /\ dom'.username = ""
         /\ ls'.user = Absent /\ cookie' = Absent
         /\ ~dom'.remember
         /\ ~dom'.submitDisabled
         /\ dom'.newPlayerHidden /\ dom'.summaryHidden
         /\ dom'.blocks = <<>>
         /\ ~dom'.loaderHidden
         /\ fetches'.stale + fetches'.fresh = fetches.stale + fetches.fresh + 1
         /\ ls'.scores = ls.scores]_vars

\* submit is disabled exactly while New Player is visible
SubmitOffIffNewPlayerShown == dom.submitDisabled <=> ~dom.newPlayerHidden

\* a step adds at most one record, and a step that adds one ends the round
OneRecordPerRound ==
    Len(StoredNow') > Len(StoredNow) =>
        /\ Len(StoredNow') = Len(StoredNow) + 1
        /\ dom'.submitDisabled

\* C27: at most one accepted submission per round: in every reachable state
\* submit is disabled exactly when New Player is visible, and between two
\* New Player clicks the stored list grows by at most one record
C27_OneAcceptedSubmitPerRound ==
    [](SubmitOffIffNewPlayerShown) /\ [][OneRecordPerRound]_vars

\* C29: while the page runs, the Clear Scores button is disabled exactly
\* when the stored list is empty, the top summary is hidden exactly then,
\* and the top count of a non-empty list is at least 1
C29_ClearButtonFollowsStore ==
    (attached = <<TRUE, TRUE>>) =>
        /\ dom.clearDisabled <=> (StoredNow = <<>>)
        /\ dom.topHidden <=> (StoredNow = <<>>)
        /\ StoredNow # <<>> => dom.topText[2] >= 1

\* the top summary alone follows the store
TopSummaryFollowsStore ==
    (attached = <<TRUE, TRUE>>) =>
        /\ dom.topHidden <=> (StoredNow = <<>>)
        /\ StoredNow # <<>> => dom.topText[2] >= 1

(***************************** question requests ***********************)
\* The page with the user playing rounds only; probe keeps, of the response
\* that arrived last, which round it belonged to (x), the outcome (painted)
\* and the question blocks it found on the page (got).
Arrives(age, o) ==
    /\ Response(age, o)
    /\ probe' = [x |-> <<age>>, got |-> dom.blocks, again |-> Absent,
                 painted |-> o.kind]

FetchArrive == \E age \in {"stale", "fresh"}, o \in Outcomes : Arrives(age, o)

FetchNext ==
    \/ PageLoad
    \/ SelectAnswer
    \/ Submit
    \/ ClickNewPlayer
    \/ FetchArrive

\* the page opened by a user who never chose a sort order
FetchInit == Init /\ ls.sort = Absent

\* a request the browser has sent settles sooner or later
FetchSpec == FetchInit /\ [][FetchNext]_vars /\ WF_vars(FetchArrive)

InFlight == fetches.stale + fetches.fresh

\* C15: every response, whether it carries questions, rejects, fails to
\* parse or has no results array, leaves the loader hidden, so as long as
\* requests settle a page with a request in flight gets its loader hidden
C15_LoaderEventuallyHidden ==
    /\ [][FetchArrive => dom'.loaderHidden]_vars
    /\ (InFlight > 0) ~> dom.loaderHidden

\* a body without results array has arrived, no request is left and the
\* loader is hidden
C15_Witness ==
    /\ probe.painted = "noresults"
    /\ InFlight = 0
    /\ dom.loaderHidden

C17_StaleResponseRenders ==
    [][/\ ClickNewPlayer =>
             /\ fetches'.stale = fetches.stale + fetches.fresh
             /\ fetches'.fresh > 0
       /\ \A n \in 0..MaxQuestions :
             Arrives("stale", [kind |-> "results", n |-> n]) =>
                 /\ dom'.blocks = [i \in 1..n |-> Block("none", FALSE)]
                 /\ ~dom'.questionsHidden]_vars

\* the response of a request from before New Player arrived last, found an
\* answered question of the new round and put an unanswered one in its place
C17_Witness ==
    /\ probe.x = <<"stale">>
    /\ probe.painted = "results"
    /\ Len(probe.got) > 0
    /\ probe.got[1].sel # "none"
    /\ Len(dom.blocks) > 0
    /\ dom.blocks[1].sel = "none"

\* C18: while a request is in flight the loader is shown and the question
\* container is hidden, also when requests overlap
C18_LoaderWhileInFlight ==
    InFlight > 0 => (~dom.loaderHidden /\ dom.questionsHidden)

(***************************** storage and scoreboard alone ****************)
\* longest list handed to the storage helpers and to the scoreboard
MaxListLen == 3

\* records the lists are built from: the 2/5, 4/5, 1/5 of the example, a
\* record without timestamp, a record that ties with it on ratio, records
\* that tie on timestamp, a 0/0 record and a full score; a list may repeat a
\* record
ViewRecords ==
    {Rec("a", 2, 5, 1), Rec("b", 4, 5, 2), Rec("c", 1, 5, 3),
     RecNoTs("d", 1, 2), Rec("e", 2, 4, 2), Rec("f", 0, 0, 2),
     Rec("g", 5, 5, 3), Rec("h", 0, 3, 2)}

ViewLists == UNION {[1..n -> ViewRecords] : n \in 0..MaxListLen}

ViewSorts == {Absent, Str("bogus")} \cup {Str(m) : m \in SortOptions}

ViewInit ==
    \E so \in ViewSorts :
        LET s0 == Fresh([scores |-> Absent, sort |-> so, user |-> Absent], Absent) IN
        /\ ls = load(s0).ls
        /\ cookie = load(s0).cookie
        /\ dom = load(s0).dom
        /\ fetches = load(s0).fetches
        /\ attached = Attached(s0)
        /\ now = 0
        /\ probe = NoProbe

\* setScoresInStorage(x) on the untouched store, then
\* getScoresFromStorage(), then setScoresInStorage of what was read
StoreScores ==
    \E x \in ViewLists :
        LET s1 == setScoresInStorage(Cur, x)
            got == getScoresFromStorage(s1)
        IN /\ probe = NoProbe
           /\ Commit(s1)
           /\ probe' = [x |-> x, got |-> got.items,
                        again |-> setScoresInStorage(s1, got.items).ls.scores,
                        painted |-> "stored"]
           /\ UNCHANGED <<attached, now>>

\* displayScores() of the first callback
PaintFirst ==
    /\ probe.painted # "none"
    /\ Commit(Handled(displayScores(Cur)))
    /\ probe' = [probe EXCEPT !.painted = "first"]
    /\ UNCHANGED <<attached, now>>

\* displayScores() of the second callback
PaintSecond ==
    /\ probe.painted # "none"
    /\ Commit(Handled(displayScores2(Cur)))
    /\ probe' = [probe EXCEPT !.painted = "second"]
    /\ UNCHANGED <<attached, now>>

\* the sort select's change listener
ViewChangeSort ==
    \E m \in SortOptions :
        /\ m # dom.sortSelect
        /\ probe.painted # "none"
        /\ LET s0 == [Cur EXCEPT !.dom.sortSelect = m]
           IN Commit(Handled(sortSelect(s0)))
        /\ probe' = [probe EXCEPT !.painted = "first"]
        /\ UNCHANGED <<attached, now>>

ViewNext ==
    \/ StoreScores
    \/ PaintFirst
    \/ PaintSecond
    \/ ViewChangeSort

ViewSpec == ViewInit /\ [][ViewNext]_vars

(***************************** two tabs ************************************)
\* Two tabs of the page share localStorage.  Each runs saveScoreToStorage
\* once, as the two storage accesses it consists of: the getItem of
\* getScoresFromStorage and the setItem of setScoresInStorage.  probe holds
\* each tab's position (pc) and the array it read (read), the list stored at
\* the start (base) and the accesses in the order they happened (events).
Tabs == {"A", "B"}

TabLists == UNION {[1..n -> ViewRecords] : n \in 0..MaxScores}

TabsInit ==
    \E sc \in {Absent, Garbage} \cup {Stringify(x) : x \in TabLists} :
        LET s0 == Fresh([scores |-> sc, sort |-> Absent, user |-> Absent], Absent) IN
        /\ ls = s0.ls
        /\ cookie = s0.cookie
        /\ dom = s0.dom
        /\ fetches = s0.fetches
        /\ attached = <<TRUE, TRUE>>
        /\ now = 0
        /\ probe = [pc |-> [t \in Tabs |-> "start"],
                    read |-> [t \in Tabs |-> JArray(<<>>)],
                    base |-> StoredList(s0),
                    events |-> <<>>]

\* src/script.js:420, const scores = getScoresFromStorage()
TabRead(t) ==
    /\ probe.pc[t] = "start"
    /\ probe' = [probe EXCEPT !.pc[t] = "read",
                              !.read[t] = getScoresFromStorage(Cur),
                              !.events = Append(@, <<"read", t>>)]
    /\ UNCHANGED <<ls, cookie, dom, fetches, attached, now>>

\* src/script.js:422-426, the record is pushed and the array stored
TabWrite(t) ==
    /\ probe.pc[t] = "read"
    /\ \E correct \in 0..1 :
          ls' = pushAndStore(Cur, probe.read[t], Rec(t, correct, 1, now)).ls
    /\ probe' = [probe EXCEPT !.pc[t] = "done",
                              !.events = Append(@, <<"write", t>>)]
    /\ UNCHANGED <<cookie, dom, fetches, attached, now>>

TabsNext == \E t \in Tabs : TabRead(t) \/ TabWrite(t)

TabsSpec == TabsInit /\ [][TabsNext]_vars

BothDone == \A t \in Tabs : probe.pc[t] = "done"

\* both tabs read before either wrote
Interleaved == probe.events[1][1] = "read" /\ probe.events[2][1] = "read"

\* C19: when both tabs have appended, the stored list is the list they
\* found plus, if their reads and writes interleaved, only the record of the
\* tab that wrote last, and otherwise both records in the order written
C19_LostUpdate ==
    BothDone =>
        /\ IsPrefix(probe.base, StoredNow)
        /\ IF Interleaved
           THEN /\ Len(StoredNow) = Len(probe.base) + 1
                /\ StoredNow[Len(StoredNow)].name = probe.events[4][2]
           ELSE /\ Len(StoredNow) = Len(probe.base) + 2
                /\ StoredNow[Len(StoredNow) - 1].name = probe.events[2][2]
                /\ StoredNow[Len(StoredNow)].name = probe.events[4][2]

\* read A, read B, write A, write B on a list that held a record
C19_Witness ==
    /\ BothDone
    /\ probe.events = <<<<"read", "A">>, <<"read", "B">>, <<"write", "A">>, <<"write", "B">>>>
    /\ Len(probe.base) > 0

(***************************** claims on storage and scoreboard ***********)
\* the record a table row was painted from
RowRec(row) ==
    IF row.date = <<>> THEN RecNoTs(row.name, row.correct, row.total)
    ELSE Rec(row.name, row.correct, row.total, row.date[1])

IsRecordRow(row) == "empty" \notin DOMAIN row

\* the records of the painted table, top to bottom
PaintedRecs ==
    LET rows == SelectSeq(dom.tbody, IsRecordRow)
    IN [i \in 1..Len(rows) |-> RowRec(rows[i])]

Count(x, seq) == Cardinality({i \in 1..Len(seq) : seq[i] = x})

Painted == probe.painted \in {"first", "second"}

\* C6: getScoresFromStorage() after setScoresInStorage(x) returns x, element
\* for element and in order, and storing what was read leaves the stored text
\* as it was
C6_StorageRoundTrip ==
    probe.painted # "none" =>
        /\ probe.got = probe.x
        /\ probe.again = Stringify(probe.x)
        /\ probe.again = ls.scores

\* a list of two or more records, with and without a timestamp, was stored
\* and read back
C6_Witness ==
    /\ probe.painted = "stored"
    /\ Len(probe.x) >= 2
    /\ \E i, j \in 1..Len(probe.x) : HasTs(probe.x[i]) /\ ~HasTs(probe.x[j])
    /\ probe.x[1] # probe.x[2]

\* C8: painting the scoreboard, by either displayScores or by the sort-change
\* listener, leaves the value under the scores key as it was
C8_RenderingKeepsStore ==
    [][(PaintFirst \/ PaintSecond \/ ViewChangeSort) => ls'.scores = ls.scores]_vars

\* the table was painted in an order that differs from the stored order
C8_Witness ==
    /\ Painted
    /\ Len(StoredNow) >= 2
    /\ PaintedRecs # StoredNow
    /\ StoredNow = probe.x

\* C9: after a paint the table holds one row per stored record, none dropped
\* and none duplicated, for every stored list and every sort preference
C9_RowsArePermutation ==
    Painted =>
        /\ Len(PaintedRecs) = Len(StoredNow)
        /\ \A i \in 1..Len(StoredNow) :
              Count(StoredNow[i], PaintedRecs) = Count(StoredNow[i], StoredNow)

\* an unrecognised preference and a list that holds the same record twice
C9_Witness ==
    /\ probe.painted = "first"
    /\ ls.sort = Str("bogus")
    /\ Len(StoredNow) = 3
    /\ StoredNow[1] = StoredNow[3]
    /\ StoredNow[1] # StoredNow[2]

\* rows from top to bottom fall in ratio, and by timestamp within a ratio
HighestOrdered(recs) ==
    \A i \in 1..(Len(recs) - 1) :
        \/ RatioLess(recs[i + 1], recs[i])
        \/ RatioEq(recs[i], recs[i + 1]) /\ Ts(recs[i]) >= Ts(recs[i + 1])

\* the 2/5, 4/5, 1/5 list of the example
ExampleList == <<Rec("a", 2, 5, 1), Rec("b", 4, 5, 2), Rec("c", 1, 5, 3)>>

\* C10: under the "highest" preference the painted rows are ordered by
\* correct/total descending, ties by timestamp descending; the list 2/5, 4/5,
\* 1/5 is painted as 4/5, 2/5, 1/5
C10_HighestOrder ==
    (Painted /\ getSortPreference(Cur) = "highest") =>
        /\ HighestOrdered(PaintedRecs)
        /\ StoredNow = ExampleList =>
              PaintedRecs = <<ExampleList[2], ExampleList[1], ExampleList[3]>>

\* the example list painted under "highest", and a list whose records tie on
\* ratio
C10_Witness ==
    /\ Painted
    /\ getSortPreference(Cur) = "highest"
    /\ \/ StoredNow = ExampleList
       \/ /\ Len(StoredNow) = 3
          /\ RatioEq(StoredNow[1], StoredNow[2])
          /\ Ts(StoredNow[1]) < Ts(StoredNow[2])

\* rows from top to bottom rise in ratio, and by timestamp within a ratio
LowestOrdered(recs) ==
    \A i \in 1..(Len(recs) - 1) :
        \/ RatioLess(recs[i], recs[i + 1])
        \/ RatioEq(recs[i], recs[i + 1]) /\ Ts(recs[i]) <= Ts(recs[i + 1])

\* C11: under the "lowest" preference the painted rows are ordered by
\* correct/total ascending (0 when total is 0), ties by timestamp ascending
C11_LowestOrder ==
    (Painted /\ getSortPreference(Cur) = "lowest") => LowestOrdered(PaintedRecs)

\* C12: under "newest" the painted rows are in non-increasing timestamp
\* order and under "oldest" in non-decreasing order, a record without
\* timestamp counting as timestamp 0
C12_TimestampOrder ==
    Painted =>
        /\ getSortPreference(Cur) = "newest" =>
              \A i \in 1..(Len(PaintedRecs) - 1) :
                  Ts(PaintedRecs[i]) >= Ts(PaintedRecs[i + 1])
        /\ getSortPreference(Cur) = "oldest" =>
              \A i \in 1..(Len(PaintedRecs) - 1) :
                  Ts(PaintedRecs[i]) <= Ts(PaintedRecs[i + 1])

\* the record rows of the painted table
RecordRows == SelectSeq(dom.tbody, IsRecordRow)

\* the largest rounded percentage among the painted rows
MaxPercent ==
    CHOOSE m \in {Percent(PaintedRecs[i]) : i \in 1..Len(PaintedRecs)} :
        \A i \in 1..Len(PaintedRecs) : Percent(PaintedRecs[i]) <= m

\* C13: for a non-empty painted list the summary's topPercent is the largest
\* rounded percentage of the rows, exactly the rows at that percentage carry
\* the "top" flag, and topCount is the number of flagged rows; 5/5, 4/5, 5/5
\* gives 100 and 2
C13_TopScore ==
    (Painted /\ Len(StoredNow) > 0) =>
        /\ ~dom.topHidden
        /\ dom.topText[1] = MaxPercent
        /\ \A i \in 1..Len(RecordRows) :
              RecordRows[i].top <=> (Percent(PaintedRecs[i]) = dom.topText[1])
        /\ dom.topText[2] = Cardinality({i \in 1..Len(RecordRows) : RecordRows[i].top})
        /\ StoredNow = <<Rec("g", 5, 5, 3), Rec("b", 4, 5, 2), Rec("g", 5, 5, 3)>> =>
              dom.topText = <<100, 2>>

\* the best row is not the first one painted, or the 5/5, 4/5, 5/5 example
C13_Witness ==
    /\ Painted
    /\ Len(RecordRows) = 3
    /\ \/ ~RecordRows[1].top /\ RecordRows[3].top
       \/ StoredNow = <<Rec("g", 5, 5, 3), Rec("b", 4, 5, 2), Rec("g", 5, 5, 3)>>

\* what the summary box says beyond the top percentage and the tie count
ReportedAverage == SubSeq(dom.topText, 3, Len(dom.topText))

RECURSIVE SumOf(_, _)
SumOf(field, recs) ==
    IF recs = <<>> THEN 0 ELSE Head(recs)[field] + SumOf(field, Tail(recs))

\* round(sum(correct) / sum(total) * 100)
WeightedAverage(recs) ==
    (200 * SumOf("correct", recs) + SumOf("total", recs))
        \div (2 * SumOf("total", recs))

\* C14: the view reports the weighted average round(sum(correct) /
\* sum(total) * 100) of the visible rows, and none when there are no rows or
\* sum(total) is 0
C14_WeightedAverage ==
    Painted =>
        IF Len(PaintedRecs) = 0 \/ SumOf("total", PaintedRecs) = 0
        THEN ReportedAverage = <<>>
        ELSE ReportedAverage = <<WeightedAverage(PaintedRecs)>>

Reverse(seq) == [i \in 1..Len(seq) |-> seq[Len(seq) + 1 - i]]

\* the mode that sorts by the same key in the other direction
Opposite(m) ==
    CASE m = "newest" -> "oldest"
      [] m = "oldest" -> "newest"
      [] m = "highest" -> "lowest"
      [] m = "lowest" -> "highest"

\* the records displayScores paints for the stored list in mode m
RecsUnder(m) ==
    LET rows == SelectSeq(displayScores([Cur EXCEPT !.ls.sort = Str(m)]).dom.tbody,
                          IsRecordRow)
    IN [i \in 1..Len(rows) |-> RowRec(rows[i])]

\* a and b are equal for the comparator of mode m
TiedOn(m, a, b) ==
    IF m \in {"newest", "oldest"} THEN Ts(a) = Ts(b)
    ELSE RatioEq(a, b) /\ Ts(a) = Ts(b)

NoTies(m, recs) ==
    \A i, j \in 1..Len(recs) : i # j => ~TiedOn(m, recs[i], recs[j])

\* the board was painted by displayScores in one of the four modes
PaintedInMode == probe.painted = "first" /\ getSortPreference(Cur) \in SortOptions

\* C30 as stated: for every stored list the rows under a mode are the exact
\* reverse of the rows under the opposite mode, ties included
C30_ModesAreReverses ==
    PaintedInMode =>
        Reverse(PaintedRecs) = RecsUnder(Opposite(getSortPreference(Cur)))

\* C30: the rows under a mode are the exact reverse of the rows under the
\* opposite mode for every stored list in which no two records are equal
\* for the comparator: no shared timestamp (a missing one counts as 0)
\* under newest/oldest, no tie on both ratio and timestamp under
\* highest/lowest
C30_ModesAreReversesWithoutTies ==
    (PaintedInMode /\ NoTies(getSortPreference(Cur), StoredNow)) =>
        Reverse(PaintedRecs) = RecsUnder(Opposite(getSortPreference(Cur)))

\* three records painted under "lowest", two of them equal in ratio and
\* one of these without a timestamp, in an order that is not the stored one
C30_Witness ==
    /\ PaintedInMode
    /\ getSortPreference(Cur) = "lowest"
    /\ Len(StoredNow) = 3
    /\ NoTies("lowest", StoredNow)
    /\ PaintedRecs # StoredNow
    /\ \E i, j \in 1..3 :
          /\ RatioEq(StoredNow[i], StoredNow[j])
          /\ ~HasTs(StoredNow[i]) /\ Ts(StoredNow[j]) > 0

(***************************** the form alone ******************************)
\* A round of up to MaxBlocks questions on a page with an empty store: the
\* user answers, types a name and submits.  probe keeps what the last
\* submit saw and did: the blocks before it (x), the element focused and the
\* index of the focused block (got), and the alerts shown (again).
MaxBlocks == 2

FormInit ==
    \E n \in 0..MaxBlocks :
        LET s0 == Fresh([scores |-> Absent, sort |-> Absent, user |-> Absent],
                        Absent)
            loaded == [load(s0) EXCEPT !.fetches = NoFetches]
        IN
        /\ ls = loaded.ls
        /\ cookie = loaded.cookie
        /\ dom = fetchSettled(loaded, [kind |-> "results", n |-> n]).dom
        /\ fetches = NoFetches
        /\ attached = Attached(s0)
        /\ now = 0
        /\ probe = NoProbe

\* the submit event: the listener of the first callback, then the listener
\* of the second
FormSubmit ==
    /\ ~dom.submitDisabled
    /\ \E s1 \in {On1(Cur, handleFormSubmit(Cur, now, now))} :
       \E s2 \in {On2(s1, handleFormSubmit2(s1, now))} :
          /\ Commit(s2)
          /\ probe' = [x |-> dom.blocks, got |-> <<s2.focus, s2.focusIndex>>,
                       again |-> s2.alerts, painted |-> "submit"]
    /\ UNCHANGED <<attached, now>>

FormNext == FormSubmit \/ SelectAnswer \/ TypeName

FormSpec == FormInit /\ [][FormNext]_vars

\* C25: a submit blocked for unanswered questions leaves the invalid mark
\* on exactly the unanswered blocks, focuses the unanswered block of
\* smallest index, reports the unanswered questions only (also when the
\* name is missing too) and stores nothing
C25_BlockedSubmitFlagsUnanswered ==
    [][(FormSubmit /\ Unanswered(dom.blocks) # {}) =>
         /\ Len(dom'.blocks) = Len(dom.blocks)
         /\ \A i \in 1..Len(dom.blocks) :
               /\ dom'.blocks[i].sel = dom.blocks[i].sel
               /\ dom'.blocks[i].invalid <=> (dom.blocks[i].sel = "none")
         /\ probe'.got[1] = "block"
         /\ probe'.got[2] \in Unanswered(dom.blocks)
         /\ \A j \in Unanswered(dom.blocks) : probe'.got[2] <= j
         /\ probe'.again # <<>>
         /\ \A k \in 1..Len(probe'.again) : probe'.again[k] = "answer"
         /\ ls' = ls]_vars

\* a second blocked submit: block 1, flagged by the first one and answered
\* since, loses its mark; block 2 is focused; the name is blank as well
C25_Witness ==
    /\ probe.painted = "submit"
    /\ Len(probe.x) = 2
    /\ probe.x[1].sel # "none" /\ probe.x[1].invalid
    /\ probe.x[2].sel = "none"
    /\ trim(dom.username) = ""
    /\ ~dom.blocks[1].invalid /\ dom.blocks[2].invalid
    /\ probe.got = <<"block", 2>>

\* the records a step appended to the stored list
Appended == SubSeq(StoredNow', Len(StoredNow) + 1, Len(StoredNow'))

\* every appended record counts the questions that were rendered
AppendedMatchForm(least) ==
    /\ IsPrefix(StoredNow, StoredNow')
    /\ \A k \in 1..Len(Appended) :
          /\ Appended[k].total = Len(dom.blocks)
          /\ Appended[k].total >= least
          /\ 0 <= Appended[k].correct
          /\ Appended[k].correct <= Appended[k].total

\* C28 as stated: a submit with no question block rendered appends no
\* record, so every record a submit appends has total >= 1,
\* 0 <= correct <= total and total = the number of rendered questions
C28_NoRecordWithoutQuestions ==
    [][FormSubmit =>
         /\ Len(dom.blocks) = 0 => StoredNow' = StoredNow
         /\ AppendedMatchForm(1)]_vars

\* C28: a submit with no question block rendered is accepted and appends
\* a record with total 0; every record a submit appends has total >= 0,
\* 0 <= correct <= total and total = the number of rendered questions
C28_RecordCountsRenderedQuestions ==
    [][FormSubmit =>
         /\ Len(dom.blocks) = 0 => Len(StoredNow') > Len(StoredNow)
         /\ AppendedMatchForm(0)]_vars

\* a submit on a form without questions has stored a 0/0 record
C28_Witness ==
    /\ probe.painted = "submit"
    /\ probe.x = <<>>
    /\ dom.submitDisabled
    /\ \E k \in 1..Len(StoredNow) :
          StoredNow[k].total = 0 /\ StoredNow[k].correct = 0

====
